---- MODULE Spec2Model ----
(***************************************************************************)
(* The semantic segmentation service node                                  *)
(* (src/src/semantic_segmentation_integrate_node.cpp).                     *)
(*                                                                         *)
(* Two Labeler objects, l1 (service label_integrated_cloud, handler        *)
(* label_cloud) and l2 (service label_integrated_cloud_plus, handler       *)
(* label_cloud_plus), are served by one single-threaded ros::spin() loop,  *)
(* so one handler runs at a time.  A handler is modelled as the sequence   *)
(* of its stages, one action per stage, pc being the handler's position.   *)
(* Every external call (cloud service, origin service, extractVoxels, the  *)
(* CRF inference) returns a value chosen from a bounded set.               *)
(*                                                                         *)
(* Indices: the code is 0-based.  Class indices and point_index are kept   *)
(* 0-based; clouds, matrices' columns and vectors are sequences, so the    *)
(* code's element k is element k+1 of the sequence.                        *)
(***************************************************************************)
EXTENDS Integers, Sequences, FiniteSets, TLC

\* Largest voxelized cloud that extractVoxels returns.
MaxPts == 3

\* _C: the number of valid labels (Labeler constructor).
C == 3

Labelers == {"l1", "l2"}

\* The waypoint ids, in the order std::map<std::string, ...> iterates them.
IdOrder == <<"A", "B">>

Ids == {IdOrder[k] : k \in 1..Len(IdOrder)}

\* instance_number values of a LabelIntegratedPointInstanceCloud request.
Instances == {1, 2}

\* header.frame_id values the cloud service answers with.
FrameIds == {"map", "odom"}

\* The frame of the pipeline runs.
PipelineFrameIds == {"map"}

\* Keys of the voxel map that extractVoxels fills.
VoxelKeys == {1, 2}

\* Entries of the matrix that DenseCRF::inference returns.
Vals == {0, 1}

\* min_point_count values of the configuration file.
MinPointChoices == 1..MaxPts

\* min_point_count of the configuration the service runs are checked with.
ServiceMinPoints == {2}

\* Sizes of the voxelized clouds in the service runs: empty, below
\* min_point_count, at least min_point_count.
ServiceSizes == {0, 1, MaxPts}

Classes == 0..(C - 1)

VARIABLES
  stored,            \* _stored_waypoints of each Labeler
  frame_id,          \* _frame_id of each Labeler
  minimum_points,    \* _minimum_points of each Labeler
  channel,           \* the latched topic /semantic_segmentation_clouds
  npub,              \* publish() calls made by the running handler
  pc,                \* position of the running handler
  cur,               \* the Labeler whose handler runs (or ran last)
  req,               \* the request
  res,               \* the response
  ret,               \* the handler's return value
  srv,               \* the cloud service's response
  voxelized_cloud,
  voxels,
  extracted,         \* the voxel map as extractVoxels returned it
  N,
  point_index,
  unary,
  feature,
  feature2,
  map,
  result_labels,
  result_prob,
  label_frequencies

object == <<stored, frame_id, minimum_points>>

call == <<cur, req, res, ret>>

locals == <<srv, voxelized_cloud, voxels, extracted, N, point_index, unary,
            feature, feature2, map, result_labels, result_prob, label_frequencies>>

vars == <<stored, frame_id, minimum_points, channel, npub, pc, cur, req, res, ret,
          srv, voxelized_cloud, voxels, extracted, N, point_index, unary,
          feature, feature2, map, result_labels, result_prob, label_frequencies>>

----------------------------------------------------------------------------
\* Values

\* The colour the loop before the decode loop paints every point with.
Black == <<0, 0, 0>>

\* A point's colour after cv::cvtColor(rgb, rgb, CV_BGR2Lab): some Lab value.
LabColor == <<128, 128, 128>>

\* Utils::RgbLabelConversion::labelToRgb: the fixed label -> colour table.
LabelToRgb(label) == <<label + 1, 0, 0>>

\* Utils::RgbLabelConversion::getLabelNames: one name per valid label.
LabelNames == [k \in 1..C |-> k - 1]

\* A float: a quotient num/den, or NaN.
Float(num, den) == [nan |-> FALSE, num |-> num, den |-> den]

NaN == [nan |-> TRUE, num |-> 0, den |-> 1]

\* IEEE 754 single division of float a by float(n), a >= 0, n >= 0: 0/0 is NaN.
FloatDiv(a, n) ==
  IF n = 0 /\ a = 0 THEN NaN ELSE Float(a, n)

EmptyRes ==
  [index_to_label_name |-> <<>>, label |-> <<>>, label_probabilities |-> <<>>,
   label_frequencies |-> <<>>, points |-> <<>>]

NoSrv == [frame_id |-> "", cloud |-> <<>>]

NoReq == [waypoint_id |-> "", instance_number |-> 0]

EmptyChannel == [latched |-> FALSE, points |-> <<>>, frame_id |-> ""]

Min(S) == CHOOSE k \in S : \A m \in S : k <= m

\* The elements of a set of integers in increasing order.
RECURSIVE Ascending(_)
Ascending(S) ==
  IF S = {} THEN <<>> ELSE <<Min(S)>> \o Ascending(S \ {Min(S)})

\* A vector of n copies of v: std::vector<T>(n, v).
Filled(n, v) == [k \in 1..n |-> v]

----------------------------------------------------------------------------
\* Voxel (voxel.h)

Voxel(indices) == [indices |-> indices, computed |-> FALSE]

getSize(v) == Len(v.indices)

getIndices(v) == v.indices

computeFeatures(v) == [v EXCEPT !.computed = TRUE]

\* The feature vector of a voxel, a function of its member points.
getFeatures(v) == Head(v.indices)

\* libf::RandomForest::classLogPosterior: the forest read at startup is a fixed
\* function from a feature vector to a vector of C scores.
classLogPosterior(feat) == [c \in Classes |-> IF c = feat % C THEN 1 ELSE 0]

\* Voxel::addDataToCrfMats: for each member point, in stored order, column
\* point_index of unary takes probs, column point_index of feature takes the
\* point (position and colour), of feature2 its position; point_index advances.
\* (The set with one element binds st to the value of st0, which is then
\* evaluated once; so in the loop bodies below.)
AddPoint(st0, i, cloud, probs) ==
  LET Step(st) ==
        [unary |-> [st.unary EXCEPT ![st.point_index + 1] = probs],
         feature |-> [st.feature EXCEPT ![st.point_index + 1] = cloud[i]],
         feature2 |-> [st.feature2 EXCEPT ![st.point_index + 1] = cloud[i].x],
         point_index |-> st.point_index + 1]
  IN CHOOSE r \in {Step(st) : st \in {st0}} : TRUE

RECURSIVE addDataToCrfMats(_, _, _, _)
addDataToCrfMats(st, indices, cloud, probs) ==
  IF indices = <<>> THEN st
  ELSE addDataToCrfMats(AddPoint(st, Head(indices), cloud, probs),
                        Tail(indices), cloud, probs)

----------------------------------------------------------------------------
\* What the external calls may return

\* The voxelized cloud of n points extractVoxels builds from the cloud of
\* observation obs: point i lies at position <<obs, i>>.
VoxelizedCloud(obs, n) == [i \in 1..n |-> [x |-> <<obs[1], obs[2], i>>, rgb |-> LabColor]]

\* The voxel map for an assignment a of the points to voxel keys (0: the point
\* is in no voxel); a voxel lists its member indices in increasing order.
VoxelMap(a) ==
  LET n == Len(a)
  IN [k \in {a[i] : i \in 1..n} \ {0} |-> Voxel(Ascending({i \in 1..n : a[i] = k}))]

Segmentations(n) ==
  {VoxelMap(a) : a \in [1..n -> VoxelKeys \cup {0}]}

\* The segmentations with at most one voxel, holding every point.
WholeCloudSegmentations(n) ==
  {VoxelMap([i \in 1..n |-> 1])}

\* A column of class probabilities: some class has a positive one.
ProbColumns == {col \in [Classes -> Vals] : \E c \in Classes : col[c] > 0}

\* The C x n matrices: a sequence of n columns.
ProbMatrices(n) == [1..n -> ProbColumns]

----------------------------------------------------------------------------
\* The node after main has built l2 and l1 from the same configuration file,
\* min_point_count being one of M.
InitWith(M) ==
  /\ stored = [l \in Labelers |-> <<>>]
  /\ frame_id = [l \in Labelers |-> ""]
  /\ \E m \in M : minimum_points = [l \in Labelers |-> m]
  /\ channel = EmptyChannel
  /\ npub = 0
  /\ pc = "Idle"
  /\ cur = "l1"
  /\ req = NoReq
  /\ res = EmptyRes
  /\ ret = "none"
  /\ srv = NoSrv
  /\ voxelized_cloud = <<>>
  /\ voxels = <<>>
  /\ extracted = <<>>
  /\ N = 0
  /\ point_index = 0
  /\ unary = <<>>
  /\ feature = <<>>
  /\ feature2 = <<>>
  /\ map = <<>>
  /\ result_labels = <<>>
  /\ result_prob = <<>>
  /\ label_frequencies = <<>>

Init == InitWith(ServiceMinPoints)

InitPipeline == InitWith(MinPointChoices)

\* The handler's locals as they are when it is not running.
LocalsCleared ==
  /\ srv' = NoSrv
  /\ voxelized_cloud' = <<>>
  /\ voxels' = <<>>
  /\ extracted' = <<>>
  /\ N' = 0
  /\ point_index' = 0
  /\ unary' = <<>>
  /\ feature' = <<>>
  /\ feature2' = <<>>
  /\ map' = <<>>
  /\ result_labels' = <<>>
  /\ result_prob' = <<>>
  /\ label_frequencies' = <<>>

----------------------------------------------------------------------------
\* The pure parts of label_cloud / label_cloud_plus and publish_clouds

\* KeepVoxel with > for >=.
KeepVoxelStrict(n, minpts) == n > minpts

\* The test of the filter loop: only look at large enough voxels.
KeepVoxel(n, minpts) == n >= minpts

\* voxels.erase(v_it++)
Erase(vox, k) == [j \in DOMAIN vox \ {k} |-> vox[j]]

\* The filter loop over the voxel map in key order; todo holds the keys from
\* v_it to voxels.end().
RECURSIVE FilterLoop(_, _, _)
FilterLoop(st, todo, minpts) ==
  IF todo = {} THEN st
  ELSE LET k == Min(todo)
           n == getSize(st.voxels[k])
       IN IF KeepVoxel(n, minpts)
          THEN FilterLoop([voxels |-> [st.voxels EXCEPT ![k] = computeFeatures(@)],
                           N |-> st.N + n],
                          todo \ {k}, minpts)
          ELSE FilterLoop([voxels |-> Erase(st.voxels, k), N |-> st.N],
                          todo \ {k}, minpts)

\* The loop that classifies each voxel and fills the CRF matrices.
RECURSIVE BuildLoop(_, _, _, _)
BuildLoop(st, vox, todo, cloud) ==
  IF todo = {} THEN st
  ELSE LET k == Min(todo)
           probs == classLogPosterior(getFeatures(vox[k]))
       IN BuildLoop(addDataToCrfMats(st, getIndices(vox[k]), cloud, probs),
                    vox, todo \ {k}, cloud)

\* IsNewMax with >= for >: the last of equal maxima wins.
IsNewMaxOrEqual(p, max_prob) == p >= max_prob

\* The comparison of the arg-max scan.
IsNewMax(p, max_prob) == p > max_prob

\* The scan over c = 1 .. _C-1 of one column of the inference result.
RECURSIVE MaxScan(_, _, _, _)
MaxScan(col, c, max_label, max_prob) ==
  IF c >= C THEN max_label
  ELSE IF IsNewMax(col[c], max_prob)
       THEN MaxScan(col, c + 1, c, col[c])
       ELSE MaxScan(col, c + 1, max_label, max_prob)

MaxLabel(col) == MaxScan(col, 1, 0, col[0])

\* The cloud index the decode loop paints for member index i.
PaintedIndex(i, col) == i

\* The body of the decode loop for member index i.
DecodePoint(st0, i, m) ==
  LET Step(st) ==
        LET j == st.point_index + 1
            max_label == MaxLabel(m[j])
            prob_idx == C * st.point_index
        IN [cloud |-> [st.cloud EXCEPT
                         ![PaintedIndex(i, st.point_index)].rgb = LabelToRgb(max_label)],
            result_labels |-> [st.result_labels EXCEPT ![j] = max_label],
            result_prob |-> [k \in 1..Len(st.result_prob) |->
                               IF prob_idx < k /\ k <= prob_idx + C
                               THEN m[j][k - prob_idx - 1]
                               ELSE st.result_prob[k]],
            label_frequencies |-> [k \in 1..C |-> st.label_frequencies[k] + m[j][k - 1]],
            point_index |-> st.point_index + 1]
  IN CHOOSE r \in {Step(st) : st \in {st0}} : TRUE

RECURSIVE DecodeIndices(_, _, _)
DecodeIndices(st, indices, m) ==
  IF indices = <<>> THEN st
  ELSE DecodeIndices(DecodePoint(st, Head(indices), m), Tail(indices), m)

RECURSIVE DecodeLoop(_, _, _, _)
DecodeLoop(st, vox, todo, m) ==
  IF todo = {} THEN st
  ELSE LET k == Min(todo)
       IN DecodeLoop(DecodeIndices(st, getIndices(vox[k]), m), vox, todo \ {k}, m)

\* Blacken left out: the points keep their Lab colour.
NotBlackened(cloud) == cloud

\* The loop painting every point of the voxelized cloud black.
Blacken(cloud) == [i \in 1..Len(cloud) |-> [cloud[i] EXCEPT !.rgb = Black]]

\* Normalize the frequencies.
Normalize(freq, n) == [k \in 1..Len(freq) |-> FloatDiv(freq[k], n)]

\* A default-constructed geometry_msgs point.
DefaultPoint == <<"", 0, 0>>

\* CopyPoint reading the cloud at the column instead of the member index.
CopyPointByColumn(st0, i, cloud) ==
  LET Step(st) ==
        [points |-> [st.points EXCEPT ![st.point_index + 1] = cloud[st.point_index + 1].x],
         point_index |-> st.point_index + 1]
  IN CHOOSE r \in {Step(st) : st \in {st0}} : TRUE

\* The body of the coordinate loop for member index i.
CopyPoint(st0, i, cloud) ==
  LET Step(st) ==
        [points |-> [st.points EXCEPT ![st.point_index + 1] = cloud[i].x],
         point_index |-> st.point_index + 1]
  IN CHOOSE r \in {Step(st) : st \in {st0}} : TRUE

RECURSIVE CopyIndices(_, _, _)
CopyIndices(st, indices, cloud) ==
  IF indices = <<>> THEN st
  ELSE CopyIndices(CopyPoint(st, Head(indices), cloud), Tail(indices), cloud)

RECURSIVE CopyLoop(_, _, _, _)
CopyLoop(st, vox, todo, cloud) ==
  IF todo = {} THEN st
  ELSE LET k == Min(todo)
       IN CopyLoop(CopyIndices(st, getIndices(vox[k]), cloud), vox, todo \ {k}, cloud)

\* StoreKey with the instance number in the key.
StoreKeyWithInstance(r) ==
  IF r.instance_number <= 1 THEN r.waypoint_id
  ELSE IF r.waypoint_id = "A" THEN "A/2" ELSE "B/2"

\* The key under which a handler stores the cloud.
StoreKey(r) == r.waypoint_id

\* Put appending to the cloud already stored under the key.
PutAppend(m, key, cloud) ==
  [k \in DOMAIN m \cup {key} |->
     IF k # key THEN m[k] ELSE IF key \in DOMAIN m THEN m[key] \o cloud ELSE cloud]

\* _stored_waypoints[key] = cloud
Put(m, key, cloud) ==
  [k \in DOMAIN m \cup {key} |-> IF k = key THEN cloud ELSE m[k]]

\* The push_back loops of publish_clouds over the map from its k-th key on:
\* position and colour of every point of every stored cloud.
RECURSIVE FuseFrom(_, _)
FuseFrom(m, k) ==
  IF k > Len(IdOrder) THEN <<>>
  ELSE (IF IdOrder[k] \in DOMAIN m
        THEN [i \in 1..Len(m[IdOrder[k]]) |->
                [x |-> m[IdOrder[k]][i].x, rgb |-> m[IdOrder[k]][i].rgb]]
        ELSE <<>>) \o FuseFrom(m, k + 1)

\* Fused over one map shared by both Labelers.
FusedBoth(l) == FuseFrom(stored["l1"], 1) \o FuseFrom(stored["l2"], 1)

\* The cloud publish_clouds of Labeler l builds.
Fused(l) == FuseFrom(stored[l], 1)

----------------------------------------------------------------------------
\* The handler, stage by stage

\* ros::spin() dispatches a request to label_cloud (l1) or label_cloud_plus (l2).
Request(l, id, inst) ==
  /\ pc = "Idle"
  /\ pc' = "AcquireCloud"
  /\ cur' = l
  /\ req' = [waypoint_id |-> id, instance_number |-> inst]
  /\ res' = EmptyRes
  /\ ret' = "none"
  /\ npub' = 0
  /\ UNCHANGED <<object, channel, locals>>

\* return false
Fail ==
  /\ pc' = "Idle"
  /\ ret' = "false"
  /\ LocalsCleared
  /\ UNCHANGED <<object, channel, npub, cur, req, res>>

\* _cloud_service.call(srv), the answer's frame being one of F.
CloudCallFrom(F) ==
  /\ pc = "AcquireCloud"
  /\ \/ Fail
     \/ /\ \E f \in F :
             srv' = [frame_id |-> f, cloud |-> <<req.waypoint_id, req.instance_number>>]
        /\ pc' = "AcquireOrigin"
        /\ UNCHANGED <<object, channel, npub, call, voxelized_cloud, voxels,
                       extracted, N, point_index, unary, feature, feature2, map,
                       result_labels, result_prob, label_frequencies>>

CloudCall == CloudCallFrom(FrameIds)

CloudCallPipeline == CloudCallFrom(PipelineFrameIds)

\* OriginCall with _frame_id assigned before the origin call's result is tested.
OriginCallFrameFirst ==
  /\ pc = "AcquireOrigin"
  /\ frame_id' = [frame_id EXCEPT ![cur] = srv.frame_id]
  /\ \/ /\ pc' = "Idle"
        /\ ret' = "false"
        /\ LocalsCleared
        /\ UNCHANGED <<stored, minimum_points, channel, npub, cur, req, res>>
     \/ /\ pc' = "Segment"
        /\ UNCHANGED <<stored, minimum_points, channel, npub, call, locals>>

\* _origin_service.call(origin_srv)
OriginCall ==
  /\ pc = "AcquireOrigin"
  /\ \/ Fail
     \/ /\ frame_id' = [frame_id EXCEPT ![cur] = srv.frame_id]
        /\ pc' = "Segment"
        /\ UNCHANGED <<stored, minimum_points, channel, npub, call, locals>>

\* The Lab conversion and _dl.extractVoxels(cloud, voxels, voxelized_cloud),
\* returning a cloud of n points and the voxel map seg.
ExtractVoxels(n, seg) ==
  /\ voxelized_cloud' = VoxelizedCloud(srv.cloud, n)
  /\ voxels' = seg
  /\ extracted' = seg
  /\ pc' = "Filter"
  /\ UNCHANGED <<object, channel, npub, call, srv, N, point_index, unary,
                 feature, feature2, map, result_labels, result_prob,
                 label_frequencies>>

Segment ==
  /\ pc = "Segment"
  /\ \E n \in 0..MaxPts : \E seg \in Segmentations(n) : ExtractVoxels(n, seg)

SegmentWhole ==
  /\ pc = "Segment"
  /\ \E n \in ServiceSizes : \E seg \in WholeCloudSegmentations(n) : ExtractVoxels(n, seg)

\* Filter returning false when no voxel is retained.
FilterRejectsEmpty ==
  /\ pc = "Filter"
  /\ \E st \in {FilterLoop([voxels |-> voxels, N |-> 0], DOMAIN voxels,
                          minimum_points[cur])} :
        IF st.N = 0
        THEN Fail
        ELSE /\ voxels' = st.voxels
             /\ N' = st.N
             /\ pc' = "BuildEnergies"
             /\ UNCHANGED <<object, channel, npub, call, srv, voxelized_cloud,
                            extracted, point_index, unary, feature, feature2, map,
                            result_labels, result_prob, label_frequencies>>

\* Decide which voxels to label and which to discard.
Filter ==
  /\ pc = "Filter"
  /\ \E st \in {FilterLoop([voxels |-> voxels, N |-> 0], DOMAIN voxels,
                          minimum_points[cur])} :
        /\ voxels' = st.voxels
        /\ N' = st.N
  /\ pc' = "BuildEnergies"
  /\ UNCHANGED <<object, channel, npub, call, srv, voxelized_cloud, extracted,
                 point_index, unary, feature, feature2, map, result_labels,
                 result_prob, label_frequencies>>

\* unary(_C, N), feature(6, N), feature2(3, N) and the classification loop.
\* Eigen leaves the matrices uninitialised; the loop writes every column.
BuildEnergies ==
  /\ pc = "BuildEnergies"
  /\ \E st \in {BuildLoop([unary |-> Filled(N, [c \in Classes |-> 0]),
                          feature |-> Filled(N, [x |-> DefaultPoint, rgb |-> Black]),
                          feature2 |-> Filled(N, DefaultPoint),
                          point_index |-> 0],
                         voxels, DOMAIN voxels, voxelized_cloud)} :
        /\ unary' = st.unary
        /\ feature' = st.feature
        /\ feature2' = st.feature2
        /\ point_index' = st.point_index
  /\ pc' = "Infer"
  /\ UNCHANGED <<object, channel, npub, call, srv, voxelized_cloud, voxels,
                 extracted, N, map, result_labels, result_prob, label_frequencies>>

\* crf.inference(...) returning the _C x N matrix m.
Inference(m) ==
  /\ map' = m
  /\ pc' = "Decode"
  /\ UNCHANGED <<object, channel, npub, call, srv, voxelized_cloud, voxels,
                 extracted, N, point_index, unary, feature, feature2,
                 result_labels, result_prob, label_frequencies>>

Infer ==
  /\ pc = "Infer"
  /\ \E m \in ProbMatrices(N) : Inference(m)

\* An inference whose pairwise terms change nothing: the unary matrix comes back.
InferUnary ==
  /\ pc = "Infer"
  /\ Inference(unary)

\* Blacken the cloud, decode every column, normalize the frequencies.
Decode ==
  /\ pc = "Decode"
  /\ \E st \in {DecodeLoop([cloud |-> Blacken(voxelized_cloud),
                           result_labels |-> Filled(N, 0),
                           result_prob |-> Filled(N * C, 0),
                           label_frequencies |-> Filled(C, 0),
                           point_index |-> 0],
                          voxels, DOMAIN voxels, map)} :
        /\ voxelized_cloud' = st.cloud
        /\ result_labels' = st.result_labels
        /\ result_prob' = st.result_prob
        /\ label_frequencies' = Normalize(st.label_frequencies, N)
        /\ point_index' = st.point_index
  /\ pc' = "FillResponse"
  /\ UNCHANGED <<object, channel, npub, call, srv, voxels, extracted, N, unary,
                 feature, feature2, map>>

\* Fill the response, the coordinates by a third pass over the voxels.
FillResponse ==
  /\ pc = "FillResponse"
  /\ \E st \in {CopyLoop([points |-> Filled(N, DefaultPoint), point_index |-> 0],
                        voxels, DOMAIN voxels, voxelized_cloud)} :
        /\ res' = [index_to_label_name |-> LabelNames,
                   label |-> result_labels,
                   label_probabilities |-> result_prob,
                   label_frequencies |-> label_frequencies,
                   points |-> st.points]
        /\ point_index' = st.point_index
  /\ pc' = "Store"
  /\ UNCHANGED <<object, channel, npub, cur, req, ret, srv, voxelized_cloud,
                 voxels, extracted, N, unary, feature, feature2, map,
                 result_labels, result_prob, label_frequencies>>

\* _stored_waypoints[req.waypoint_id] = voxelized_cloud
Store ==
  /\ pc = "Store"
  /\ stored' = [stored EXCEPT ![cur] = Put(@, StoreKey(req), voxelized_cloud)]
  /\ pc' = "Publish"
  /\ UNCHANGED <<frame_id, minimum_points, channel, npub, call, locals>>

\* publish_clouds()
Publish ==
  /\ pc = "Publish"
  /\ channel' = [latched |-> TRUE, points |-> Fused(cur), frame_id |-> frame_id[cur]]
  /\ npub' = npub + 1
  /\ pc' = "Return"
  /\ UNCHANGED <<object, call, locals>>

\* return true
Return ==
  /\ pc = "Return"
  /\ pc' = "Idle"
  /\ ret' = "true"
  /\ LocalsCleared
  /\ UNCHANGED <<object, channel, npub, cur, req, res>>

\* The requests the two services accept.
Requests ==
  {<<"l1", id, 0>> : id \in Ids} \cup {<<"l2", id, inst>> : id \in Ids, inst \in Instances}

\* The service: any sequence of requests; extractVoxels finds at most one voxel
\* and the inference returns the unary matrix.
Next ==
  \/ pc = "Idle" /\ \E r \in Requests : Request(r[1], r[2], r[3])
  \/ CloudCall
  \/ OriginCall
  \/ SegmentWhole
  \/ Filter
  \/ BuildEnergies
  \/ InferUnary
  \/ Decode
  \/ FillResponse
  \/ Store
  \/ Publish
  \/ Return

Spec == Init /\ [][Next]_vars

\* The handler is straight-line code between its external calls, which return:
\* a step of a running handler that can be taken is taken.
SpecLive == Spec /\ WF_vars(pc # "Idle" /\ Next)

\* One request to each service in the pipeline runs.
PipelineRequests == {<<"l1", "A", 0>>, <<"l2", "B", 2>>}

\* The first request of a fresh node, with every min_point_count, every
\* segmentation and every inference result.
NextPipeline ==
  \/ pc = "Idle" /\ ret = "none" /\ \E r \in PipelineRequests : Request(r[1], r[2], r[3])
  \/ CloudCallPipeline
  \/ OriginCall
  \/ Segment
  \/ Filter
  \/ BuildEnergies
  \/ Infer
  \/ Decode
  \/ FillResponse
  \/ Store
  \/ Publish
  \/ Return

SpecPipeline == InitPipeline /\ [][NextPipeline]_vars

----------------------------------------------------------------------------
\* Properties

\* The member indices of the voxels of vox, voxels in key order, the members
\* of a voxel in stored order.
RECURSIVE Members(_)
Members(vox) ==
  IF DOMAIN vox = {} THEN <<>>
  ELSE vox[Min(DOMAIN vox)].indices \o Members([k \in DOMAIN vox \ {Min(DOMAIN vox)} |-> vox[k]])

\* The key of the voxel of vox that owns cloud index i.
Owner(vox, i) ==
  CHOOSE k \in DOMAIN vox : \E q \in 1..Len(vox[k].indices) : vox[k].indices[q] = i

Range(s) == {s[k] : k \in 1..Len(s)}

RECURSIVE SumOver(_, _)
SumOver(f, S) ==
  IF S = {} THEN 0
  ELSE LET k == CHOOSE e \in S : TRUE IN f[k] + SumOver(f, S \ {k})

\* The point counts of the clouds of a stored-observation map, summed.
TotalPoints(m) == SumOver([id \in DOMAIN m |-> Len(m[id])], DOMAIN m)

\* The handler has passed both acquisition calls and has not returned.
AfterAcquisition ==
  pc \in {"Segment", "Filter", "BuildEnergies", "Infer", "Decode", "FillResponse",
          "Store", "Publish", "Return"}

\* The response is complete.
Responded == pc \in {"Store", "Publish", "Return"}

\* C1: a request whose cloud call fails, or whose origin call fails, returns
\* false with no response field populated and nothing published, and no step
\* of it (the dispatch, a successful cloud call, the failing call) changes any
\* Labeler's stored-observation map or frame id, or the output channel.
C1_FailureLeavesNoTrace ==
  /\ [](ret = "false" => pc = "Idle" /\ res = EmptyRes /\ npub = 0)
  /\ [][(pc \in {"Idle", "AcquireCloud"} \/ ret' = "false")
          => UNCHANGED <<stored, frame_id, channel>>]_vars

\* A request failed at a Labeler that holds observations of earlier requests.
C1_Witness ==
  /\ pc = "Idle"
  /\ ret = "false"
  /\ DOMAIN stored[cur] = Ids
  /\ frame_id[cur] = "odom"
  /\ channel.latched

\* C2: when publish_clouds has run, the published cloud has as many points as
\* the clouds of the handling Labeler's map have together, and the store step
\* sets the entry of the requested id to the new cloud, adding a key only if
\* the id was not stored, and leaves every other entry as it was.
C2_FusedCountIsSumAndRestoreReplaces ==
  /\ [](pc = "Return" => Len(channel.points) = TotalPoints(stored[cur]))
  /\ [][pc = "Store" =>
          /\ DOMAIN stored'[cur] = DOMAIN stored[cur] \cup {req.waypoint_id}
          /\ stored'[cur][req.waypoint_id] = voxelized_cloud
          /\ \A id \in DOMAIN stored[cur] \ {req.waypoint_id} :
               stored'[cur][id] = stored[cur][id]]_vars

\* l1 holds A and B with 3 points each and has published 6; A has just been
\* stored again with 1 point and the map holds 4 points.
C2_Witness ==
  /\ pc = "Publish"
  /\ cur = "l1"
  /\ req.waypoint_id = "A"
  /\ DOMAIN stored["l1"] = {"A", "B"}
  /\ Len(stored["l1"]["A"]) = 1
  /\ Len(stored["l1"]["B"]) = MaxPts
  /\ Len(channel.points) = 2 * MaxPts
  /\ \A k \in 1..Len(channel.points) : channel.points[k].x[2] = 0

\* C3: after both acquisition calls succeed the handler has no failure exit
\* and goes on to return true, also with N = 0; nothing is published before
\* the store, the entry of the requested id is in the map when publish_clouds
\* runs, the publication is the only one and precedes the return of true.
C3_StagesRunToCompletion ==
  /\ [][AfterAcquisition => ret' # "false"]_vars
  /\ [][ret' = "true" /\ ret # "true" => pc = "Return"]_vars
  /\ [](pc \in {"Segment", "Filter", "BuildEnergies", "Infer", "Decode",
                "FillResponse", "Store"} => npub = 0)
  /\ [](pc = "Publish" => npub = 0 /\ req.waypoint_id \in DOMAIN stored[cur])
  /\ [](pc = "Return" \/ ret = "true" =>
          npub = 1 /\ req.waypoint_id \in DOMAIN stored[cur])
  /\ (AfterAcquisition ~> (pc = "Idle" /\ ret = "true"))

\* A request with no retained segment has returned true.
C3_Witness ==
  /\ pc = "Idle"
  /\ ret = "true"
  /\ res.label = <<>>
  /\ Len(stored[cur][req.waypoint_id]) = 1
  /\ npub = 1

\* C4: after the filter loop the voxel map holds exactly the voxels of the
\* extracted map with at least min_point_count points, N is the sum of their
\* sizes, and the complete response has N labels, N * C probabilities and N
\* points, each point that of a member of a kept voxel and none that of a
\* member of an erased voxel.
C4_FilterKeepsLargeSegments ==
  (pc \in {"BuildEnergies", "Infer", "Decode", "FillResponse"} \/ Responded) =>
    /\ DOMAIN voxels =
         {k \in DOMAIN extracted : Len(extracted[k].indices) >= minimum_points[cur]}
    /\ \A k \in DOMAIN voxels : voxels[k].indices = extracted[k].indices
    /\ N = SumOver([k \in DOMAIN voxels |-> Len(extracted[k].indices)], DOMAIN voxels)
    /\ Responded =>
         /\ Len(res.label) = N
         /\ Len(res.label_probabilities) = N * C
         /\ Len(res.points) = N
         /\ \A j \in 1..N :
              \E k \in DOMAIN voxels :
                \E i \in Range(extracted[k].indices) :
                  res.points[j] = voxelized_cloud[i].x
         /\ \A k \in DOMAIN extracted \ DOMAIN voxels :
              \A i \in Range(extracted[k].indices) :
                voxelized_cloud[i].x \notin Range(res.points)

\* Segments of sizes 2 and 1 with min_point_count 2: one segment kept, N = 2.
C4_Witness ==
  /\ pc = "Return"
  /\ minimum_points[cur] = 2
  /\ DOMAIN extracted = {1, 2}
  /\ Len(extracted[1].indices) = 1
  /\ Len(extracted[2].indices) = 2
  /\ DOMAIN voxels = {2}
  /\ N = 2

\* C5: a response for N = 0 has no label, probability or point and C
\* frequencies, each of them zero.
C5_EmptyResponseHasZeroFrequencies ==
  (Responded /\ N = 0) =>
    /\ res.label = <<>>
    /\ res.label_probabilities = <<>>
    /\ res.points = <<>>
    /\ Len(res.label_frequencies) = C
    /\ \A k \in 1..C :
         ~res.label_frequencies[k].nan /\ res.label_frequencies[k].num = 0

\* C6: label j of the response is the lowest class at which column j of the
\* inference result attains its maximum.
C6_LabelIsLowestArgMax ==
  Responded =>
    /\ Len(res.label) = Len(map)
    /\ \A j \in 1..Len(map) :
         /\ res.label[j] \in Classes
         /\ \A c \in Classes : map[j][c] <= map[j][res.label[j]]
         /\ \A c \in 0..(res.label[j] - 1) : map[j][c] < map[j][res.label[j]]

\* Some column has its maximum at classes 1 and 2 only, and decodes to 1.
C6_Witness ==
  /\ pc = "Return"
  /\ \E j \in 1..Len(map) :
       /\ map[j][0] < map[j][1]
       /\ map[j][1] = map[j][2]
       /\ res.label[j] = 1

\* C7: with M the member indices of the retained voxels in key order and
\* stored order, each of the three loops ends with point_index = N = Len(M),
\* and for every column j, column j of unary is the posterior of the voxel
\* owning point M[j], column j of the pairwise matrices is point M[j], label j
\* is the colour code of point M[j], probabilities C*j .. C*j+C-1 are column j
\* of the inference result, and point j of the response is point M[j].
C7_ColumnOrderIsConsistent ==
  LET M == Members(voxels)
  IN /\ pc \in {"Infer", "Decode", "FillResponse"} \/ Responded =>
          /\ point_index = N
          /\ Len(M) = N
          /\ Len(unary) = N
          /\ \A j \in 1..N :
               /\ unary[j] = classLogPosterior(getFeatures(voxels[Owner(voxels, M[j])]))
               /\ feature[j].x = <<srv.cloud[1], srv.cloud[2], M[j]>>
               /\ feature2[j] = feature[j].x
     /\ pc = "FillResponse" \/ Responded =>
          \A j \in 1..N :
            /\ voxelized_cloud[M[j]].rgb = LabelToRgb(result_labels[j])
            /\ \A c \in Classes : result_prob[C * (j - 1) + c + 1] = map[j][c]
     /\ Responded =>
          \A j \in 1..N :
            /\ res.points[j] = feature[j].x
            /\ res.points[j] = voxelized_cloud[M[j]].x
            /\ voxelized_cloud[M[j]].rgb = LabelToRgb(res.label[j])
            /\ \A c \in Classes : res.label_probabilities[C * (j - 1) + c + 1] = map[j][c]

\* Two retained voxels whose columns are not in cloud order, with different
\* labels.
C7_Witness ==
  /\ pc = "Return"
  /\ N = MaxPts
  /\ Members(voxels)[1] # 1
  /\ \E j \in 1..N : res.label[j] # res.label[1]

\* C8: no step changes the map of a Labeler other than the one whose handler
\* runs, the channel changes only when publish_clouds runs, and what it then
\* holds is made of the points of the handling Labeler's own stored clouds, as
\* many as these clouds have, under that Labeler's frame id.
C8_IndependentMapsSharedChannel ==
  /\ [][\A l \in Labelers : l # cur' => stored'[l] = stored[l]]_vars
  /\ [][channel' # channel => pc = "Publish"]_vars
  /\ [](pc = "Return" =>
          /\ channel.latched
          /\ channel.frame_id = frame_id[cur]
          /\ Len(channel.points) = TotalPoints(stored[cur])
          /\ \A k \in 1..Len(channel.points) :
               \E id \in DOMAIN stored[cur] :
                 \E i \in 1..Len(stored[cur][id]) :
                   /\ channel.points[k].x = stored[cur][id][i].x
                   /\ channel.points[k].rgb = stored[cur][id][i].rgb)

\* l2 has published while l1 holds points.
C8_Witness ==
  /\ pc = "Return"
  /\ cur = "l2"
  /\ TotalPoints(stored["l1"]) > 0
  /\ TotalPoints(stored["l2"]) > 0
  /\ frame_id["l1"] # frame_id["l2"]

\* C9: the cloud stored for a request has the points of the voxelized cloud
\* at their positions; a member of a retained voxel has the colour of its
\* label, every other point is black.
C9_StoredCloudColours ==
  pc \in {"Publish", "Return"} =>
    LET cloud == stored[cur][req.waypoint_id]
        M == Members(voxels)
    IN /\ Len(cloud) = Len(voxelized_cloud)
       /\ \A i \in 1..Len(cloud) :
            /\ cloud[i].x = <<srv.cloud[1], srv.cloud[2], i>>
            /\ \A j \in 1..Len(M) : M[j] = i => cloud[i].rgb = LabelToRgb(res.label[j])
            /\ i \notin Range(M) => cloud[i].rgb = Black

\* A retained voxel and a discarded one: coloured and black points.
C9_Witness ==
  /\ pc = "Return"
  /\ DOMAIN extracted = {1, 2}
  /\ DOMAIN voxels = {1}
  /\ \E i \in 1..MaxPts : stored[cur][req.waypoint_id][i].rgb = Black
  /\ \E i \in 1..MaxPts : stored[cur][req.waypoint_id][i].rgb = LabelToRgb(2)

\* C10: l2 keys its map by waypoint id alone: after its store step the entry
\* of the requested waypoint holds points of the requested instance only, and
\* so does the cloud it publishes for that waypoint.
C10_InstanceNotInKey ==
  cur = "l2" =>
    /\ pc \in {"Publish", "Return"} =>
         /\ DOMAIN stored["l2"] \subseteq Ids
         /\ \A i \in 1..Len(stored["l2"][req.waypoint_id]) :
              stored["l2"][req.waypoint_id][i].x[2] = req.instance_number
    /\ pc = "Return" =>
         \A k \in 1..Len(channel.points) :
           channel.points[k].x[1] = req.waypoint_id =>
             channel.points[k].x[2] = req.instance_number

\* The channel still shows waypoint A as instance 1 while the map of l2 holds
\* A as instance 2.
C10_Witness ==
  /\ pc = "Publish"
  /\ cur = "l2"
  /\ req = [waypoint_id |-> "A", instance_number |-> 2]
  /\ Len(stored["l2"]["A"]) = MaxPts
  /\ \E k \in 1..Len(channel.points) : channel.points[k].x = <<"A", 1, 1>>

====
